---- MODULE Spec2Model ----
(***************************************************************************)
(* A model of DefaultAnimBinder (src/src/anim/binder/default-anim-binder.js) *)
(* the animation target binder of the engine: path resolution against one   *)
(* scene-graph instance, the target cache, the per-node reference counts,   *)
(* the active node list, the mask evaluator and the fallback diagnostics.   *)
(***************************************************************************)
EXTENDS Integers, Sequences, FiniteSets, TLC

(***************************************************************************)
(* Bounds of the model.                                                    *)
(***************************************************************************)
\* number of binder calls explored in one behaviour
MaxSteps == 4
\* largest number of mesh instances an entity carries when the weights
\* handler is exercised on its own
MaxMeshes == 2
\* largest number of morph targets of one morph instance
MaxMorphTargets == 2
\* largest number of entries of a mask when the mask evaluator is exercised on
\* its own
MaxMaskEntries == 2

(***************************************************************************)
(* The scene graph the binder is bound to (an external collaborator).      *)
(* Node 1 is the graph root; nodes 3 and 5 share the name "C"; node 6 is   *)
(* not attached when the binder is constructed and may be attached later.  *)
(*            1                                                            *)
(*          / | \                                                          *)
(*      B=2  X=4  D=6                                                      *)
(*       |    |                                                            *)
(*      C=3  C=5                                                           *)
(***************************************************************************)
NoNode == 0
Root == 1
NodeIds == 1..6
Parent == <<0, 1, 2, 1, 4, 1>>
BaseName == <<"A", "B", "C", "X", "C", "D">>
InitialNodes == {1, 2, 3, 4, 5}

VARIABLES
    graphName,      \* this.graph.name
    present,        \* the nodes attached to the graph at this moment
    meshInstances,  \* the mesh instances of the entity owning the graph
    morphWeights,   \* per mesh instance, the weights of its morph instance
    mask,           \* this._mask
    nodes,          \* this.nodes: the flat name index
    targetCache,    \* this.targetCache
    nodeCounts,     \* this.nodeCounts
    activeNodes,    \* this.activeNodes
    visitedFallbackGraphPaths,  \* this.visitedFallbackGraphPaths (debug)
    warned,         \* console.warn calls of findNode, counted per fallback form
    dirtied,        \* the nodes the last update() called _dirtifyLocal on
    nextId,         \* identity of the next AnimTarget instance created
    last,           \* the last call: operation, argument and result
    preResolve,     \* reference counts and active list before the last resolve
    pending,        \* graph paths resolved with success and not unresolved since
    contractOK,     \* no unresolve so far was unpaired
    fallbackUses,   \* per fallback form, the paths whose findNode fell back to it
    everAbsent,     \* cache keys for which resolve has returned null
    probe,          \* the last direct evaluation of a pure function
    steps,
    debugBuild,     \* _DEBUG: the build keeps the blocks under #if _DEBUG
    loggedMessages, \* Debug._loggedMessages
    traceChannels,  \* Debug._traceChannels
    console,        \* the writes to the console made by Debug, in order
    debugCall,      \* the last call of a Debug method and what it did
    written,        \* per message, the console writes the once-methods made
    carried,        \* the messages handed to a once-method so far
    traceRequested, \* per channel, the enabled flag of the last setTrace
    lightData,      \* LightComponent: this.data
    lightObj,       \* LightComponent: this.light
    lightCall,      \* the last call on the light component
    cookieRefs,     \* LightComponent: _cookieAsset, _cookieAssetId, _cookieAssetAdd
    registry,       \* app.assets: the assets added, loaded, asked to load
    subs,           \* the event subscriptions the component holds
    animComponent,  \* this.animComponent of the binder is defined
    materials,      \* per mesh instance, the slots and update() calls of its material
    flags,          \* LightComponent: this.enabled and this.entity.enabled
    layers,         \* LightComponent: this.layers, an array of layer ids
    sceneLayers,    \* the ids of the layers in app.scene.layers
    lightLayers,    \* the ids of the layers whose light list holds this light
    layerSubs,      \* the component listens to 'add' and 'remove' of scene.layers
    maskSeen        \* per pair (affectLightmapped, bake), the light masks seen with it

logVars == <<debugBuild, loggedMessages, traceChannels, console, debugCall,
             written, carried, traceRequested>>

\* the state outside the binder
cookieVars == <<cookieRefs, registry, subs>>
layerVars == <<flags, layers, sceneLayers, lightLayers, layerSubs>>
lightVars == <<lightData, lightObj, lightCall, cookieVars, layerVars, maskSeen>>

\* what the material-texture func reads and writes
sceneVars == <<animComponent, materials>>

hostVars == <<logVars, lightVars, sceneVars>>

vars == <<graphName, present, meshInstances, morphWeights, mask, nodes,
          targetCache, nodeCounts, activeNodes, visitedFallbackGraphPaths,
          warned, dirtied, nextId, last, preResolve, pending, contractOK,
          fallbackUses, everAbsent, probe, steps, hostVars>>

graphVars == <<graphName, present, meshInstances, nodes>>
binderVars == <<targetCache, nodeCounts, activeNodes, nextId>>
debugVars == <<visitedFallbackGraphPaths, warned, fallbackUses>>

(***************************************************************************)
(* Scene graph collaborator: name, path, children, findByPath.             *)
(***************************************************************************)
NodeName(n) == IF n = Root THEN graphName ELSE BaseName[n]

RECURSIVE Join(_)
\* Array.prototype.join('/')
Join(arr) ==
    IF arr = <<>> THEN ""
    ELSE IF Len(arr) = 1 THEN arr[1]
    ELSE arr[1] \o "/" \o Join(Tail(arr))

RECURSIVE NodeSegments(_)
NodeSegments(n) ==
    IF n = Root THEN <<NodeName(n)>>
    ELSE Append(NodeSegments(Parent[n]), NodeName(n))

\* node.path
NodePath(n) == Join(NodeSegments(n))

\* node.children, in order
Children(g, n) == {c \in g : Parent[c] = n}

\* the first child of n with the given name, or NoNode
ChildNamed(g, n, name) ==
    LET hits == {c \in Children(g, n) : NodeName(c) = name}
    IN IF hits = {} THEN NoNode
       ELSE CHOOSE c \in hits : \A d \in hits : c <= d

RECURSIVE FindFrom(_, _, _)
FindFrom(g, n, path) ==
    IF path = <<>> THEN n
    ELSE LET c == ChildNamed(g, n, path[1])
         IN IF c = NoNode THEN NoNode ELSE FindFrom(g, c, Tail(path))

\* graph.findByPath(path)
FindByPath(g, path) == FindFrom(g, Root, path)

RECURSIVE PreOrderFrom(_, _, _)
\* the nodes of ids >= k below n, in depth-first pre-order
PreOrderFrom(g, n, k) ==
    LET cs == {c \in Children(g, n) : c >= k}
    IN IF cs = {} THEN <<>>
       ELSE LET c == CHOOSE x \in cs : \A y \in cs : x <= y
            IN <<c>> \o PreOrderFrom(g, c, 1) \o PreOrderFrom(g, n, c + 1)

PreOrder(g) == <<Root>> \o PreOrderFrom(g, Root, 1)

\* a variant in which the first visit of a name keeps the entry
FlattenFirstWins(g) ==
    LET walk == PreOrder(g)
        names == {NodeName(walk[i]) : i \in 1..Len(walk)}
    IN [nm \in names |->
          LET idx == {i \in 1..Len(walk) : NodeName(walk[i]) = nm}
          IN walk[CHOOSE i \in idx : \A j \in idx : i <= j]]

\* constructor: flatten(graph) -- a later visit of a name overwrites
Flatten(g) ==
    LET walk == PreOrder(g)
        names == {NodeName(walk[i]) : i \in 1..Len(walk)}
    IN [nm \in names |->
          LET idx == {i \in 1..Len(walk) : NodeName(walk[i]) = nm}
          IN walk[CHOOSE i \in idx : \A j \in idx : j <= i]]

(***************************************************************************)
(* Path codec (AnimBinder.encode).                                         *)
(***************************************************************************)
EncodeStr(entityPath, component, propertyPath) ==
    entityPath \o "/" \o component \o "/" \o propertyPath

Encode(entityPath, component, propertyPath) ==
    EncodeStr(Join(entityPath), component, propertyPath)

\* path.entityPath[path.entityPath.length - 1] || ""
LastName(entityPath) ==
    IF entityPath = <<>> THEN "" ELSE entityPath[Len(entityPath)]

(***************************************************************************)
(* Values.                                                                 *)
(***************************************************************************)
\* the elements of an array
Elems(seq) == {seq[i] : i \in 1..Len(seq)}

Null == [kind |-> "null"]
Void == [kind |-> "void"]
TypeError == [kind |-> "TypeError"]

\* a number of the reference count table, or NaN
Num(k) == [nan |-> FALSE, n |-> k]
NaN == [nan |-> TRUE, n |-> 0]

NoMask == [installed |-> FALSE, entries |-> [k \in {} |-> 0]]
MaskOf(entries) == [installed |-> TRUE, entries |-> entries]
Entry(value, children) == [value |-> value, children |-> children]

(***************************************************************************)
(* Mask evaluator.                                                         *)
(***************************************************************************)
\* this._mask[key] is an entry
HasEntry(m, key) == key \in DOMAIN m.entries

\* mutant: the value of the entry is not looked at
ExactMatchAnyValue(m, key) == HasEntry(m, key)

\* this._mask[entityPath] && this._mask[entityPath]?.value !== false
ExactMatchActive(m, key) == HasEntry(m, key) /\ m.entries[key].value # "false"

\* mutant: only the entry of the full path is asked for its children flag
PrefixChildrenOfFullPath(m, arr) ==
    /\ arr # <<>>
    /\ HasEntry(m, Join(arr))
    /\ m.entries[Join(arr)].children

\* the inner loop: some slice(0, i + 1), i < length, has maskItem?.children
PrefixChildrenActive(m, arr) ==
    \E i \in 1..Len(arr) :
        LET key == Join(SubSeq(arr, 1, i))
        IN HasEntry(m, key) /\ m.entries[key].children

\* mutant: the path is never retried under the graph root's name
EntityPathLiteralOnly(name, entityPath) == <<entityPath>>

\* entityPathArrays
EntityPathArrays(name, entityPath) ==
    IF entityPath # <<>> /\ name = entityPath[1]
    THEN <<entityPath>>
    ELSE <<entityPath,
           <<name>> \o (IF entityPath = <<>> THEN <<>> ELSE Tail(entityPath))>>

\* _isPathActive(path)
IsPathActive(m, name, entityPath) ==
    IF ~m.installed THEN TRUE
    ELSE LET arrs == EntityPathArrays(name, entityPath)
         IN \E i \in 1..Len(arrs) :
               IF ExactMatchActive(m, Join(arrs[i])) THEN TRUE
               ELSE PrefixChildrenActive(m, arrs[i])

(***************************************************************************)
(* Handler registry (this.handlers) and createAnimTarget.                  *)
(***************************************************************************)
HandlerNames ==
    {"localPosition", "localRotation", "localScale", "weights", "materialTexture"}

\* findMeshInstances(node): the graph root is the entity that owns every node
\* of the graph, so the walk up ends at it and yields its mesh instances
FindMeshInstances(n) == meshInstances

\* new AnimTarget(func, type, valueCount, targetPath), with the closure of func
CreateAnimTarget(id, type, valueCount, n, propertyPath, componentType, morphs) ==
    [kind |-> "target", id |-> id, type |-> type, valueCount |-> valueCount,
     targetPath |-> EncodeStr(NodePath(n), componentType, propertyPath),
     node |-> n, property |-> propertyPath, morphs |-> morphs]

RECURSIVE MorphIdx(_, _, _)
\* handlers.weights, lines 86-90: the mesh instances k..Len(list) of that node
\* name that carry a morph instance, in order
MorphIdx(list, k, name) ==
    IF k > Len(list) THEN <<>>
    ELSE (IF list[k].node = name /\ list[k].hasMorph THEN <<k>> ELSE <<>>)
         \o MorphIdx(list, k + 1, name)

RECURSIVE MeshIdx(_, _, _)
\* handlers.materialTexture, lines 109-114: the mesh instances of that node name
MeshIdx(list, k, name) ==
    IF k > Len(list) THEN <<>>
    ELSE (IF list[k].node = name THEN <<k>> ELSE <<>>)
         \o MeshIdx(list, k + 1, name)

\* handlers.weights: the morph instances pushed by the loop
MorphInstances(mi, n) == MorphIdx(mi.list, 1, NodeName(n))

\* mutant: the number of morph instances is taken for the value count
WeightsValueCountOfInstances(mi, morphs) == Len(morphs)

\* morphInstances[0].morph._targets.length
WeightsValueCount(mi, morphs) == mi.list[morphs[1]].targets

HandlerWeights(id, n) ==
    LET mi == FindMeshInstances(n)
    IN IF ~mi.defined THEN Null
       ELSE LET morphs == MorphInstances(mi, n)
            IN IF Len(morphs) > 0
               THEN CreateAnimTarget(id, "vector", WeightsValueCount(mi, morphs),
                                     n, "weights", "entity", morphs)
               ELSE Null

HandlerMaterialTexture(id, n) ==
    LET mi == FindMeshInstances(n)
    IN IF ~mi.defined THEN Null
       ELSE LET hits == MeshIdx(mi.list, 1, NodeName(n))
            IN IF Len(hits) > 0
               THEN CreateAnimTarget(id, "vector", 1, n, "materialTexture",
                                     "material", <<hits[1]>>)
               ELSE Null

\* handler(node) for a property that has a handler
Handler(propertyPath, id, n) ==
    CASE propertyPath = "localPosition" ->
            CreateAnimTarget(id, "vector", 3, n, "localPosition", "entity", <<>>)
      [] propertyPath = "localRotation" ->
            CreateAnimTarget(id, "quaternion", 4, n, "localRotation", "entity", <<>>)
      [] propertyPath = "localScale" ->
            CreateAnimTarget(id, "vector", 3, n, "localScale", "entity", <<>>)
      [] propertyPath = "weights" -> HandlerWeights(id, n)
      [] propertyPath = "materialTexture" -> HandlerMaterialTexture(id, n)

\* morphInstance.setWeight(i, w), i counted from 1 here
SetWeight(w, m, i, v) == [w EXCEPT ![m][i] = v]

RECURSIVE SetAll(_, _, _, _)
\* the inner loop of the weights func: every morph instance gets weight i
SetAll(w, morphs, i, v) ==
    IF morphs = <<>> THEN w
    ELSE SetAll(SetWeight(w, morphs[1], i, v), Tail(morphs), i, v)

RECURSIVE WeightsFunc(_, _, _, _)
\* the weights func applied to value, from index i on
WeightsFunc(w, morphs, value, i) ==
    IF i > Len(value) THEN w
    ELSE WeightsFunc(SetAll(w, morphs, i, value[i]), morphs, value, i + 1)

(***************************************************************************)
(* Node resolver (findNode) with its fallback diagnostics.                 *)
(***************************************************************************)
\* this.nodes[name]
FlatLookup(idx, name) == IF name \in DOMAIN idx THEN idx[name] ELSE NoNode

\* the fallback's canonical form
FallbackGraphPath(p) == EncodeStr(LastName(p.entityPath), "graph", p.propertyPath)

\* a variant that asks the flat index first and walks the graph only for a
\* name the index does not hold
FindNodeFlatFirst(p) ==
    IF ~IsPathActive(mask, graphName, p.entityPath)
    THEN [node |-> NoNode, fallback |-> FALSE, lookups |-> 0]
    ELSE LET flat == FlatLookup(nodes, LastName(p.entityPath))
         IN IF flat # NoNode
            THEN [node |-> flat, fallback |-> TRUE, lookups |-> 1]
            ELSE [node |-> FindByPath(present, p.entityPath), fallback |-> FALSE,
                  lookups |-> 2]

\* a variant that never asks the mask
FindNodeUnmasked(p) ==
    LET exact == FindByPath(present, p.entityPath)
    IN IF exact # NoNode
       THEN [node |-> exact, fallback |-> FALSE, lookups |-> 1]
       ELSE [node |-> FlatLookup(nodes, LastName(p.entityPath)),
             fallback |-> TRUE, lookups |-> 2]

\* findNode(path): the node, whether the fallback lookup ran, and how many
\* lookups (graph.findByPath, this.nodes[name]) were made
FindNode(p) ==
    IF ~IsPathActive(mask, graphName, p.entityPath)
    THEN [node |-> NoNode, fallback |-> FALSE, lookups |-> 0]
    ELSE LET exact == FindByPath(present, p.entityPath)
         IN IF exact # NoNode
            THEN [node |-> exact, fallback |-> FALSE, lookups |-> 1]
            ELSE [node |-> FlatLookup(nodes, LastName(p.entityPath)),
                  fallback |-> TRUE, lookups |-> 2]

Visited(v, f) == IF f \in DOMAIN v THEN v[f] ELSE -1
Count(c, f) == IF f \in DOMAIN c THEN c[f] ELSE 0
Uses(u, f) == IF f \in DOMAIN u THEN u[f] ELSE <<>>
Put(fn, k, v) == [x \in DOMAIN fn \cup {k} |-> IF x = k THEN v ELSE fn[x]]

\* visitedFallbackGraphPaths[f] === 1
ShouldWarn(v, f) == f \in DOMAIN v /\ v[f] = 1

\* visitedFallbackGraphPaths after a fallback use of f: 0 when it held no
\* finite number, one more otherwise
VisitedAfter(v, f) == Put(v, f, IF f \in DOMAIN v THEN v[f] + 1 ELSE 0)

(***************************************************************************)
(* Binding cache and reference counter.                                    *)
(***************************************************************************)
\* mutant: the cache is never consulted
CacheHitNever(cache, key) == FALSE

\* this.targetCache[encodedPath] is a target
CacheHit(cache, key) == key \in DOMAIN cache

\* !this.nodeCounts[node.path]: undefined, 0 and NaN are falsy
CountFalsy(counts, path) ==
    \/ path \notin DOMAIN counts
    \/ counts[path].nan
    \/ counts[path].n = 0

\* resolve, lines 215-220: the reference count table after a new binding
CountsAfterBind(counts, path) ==
    IF CountFalsy(counts, path) THEN Put(counts, path, Num(1))
    ELSE Put(counts, path, Num(counts[path].n + 1))

\* resolve, lines 215-216: the active list after a new binding
ActiveAfterBind(active, counts, n) ==
    IF CountFalsy(counts, NodePath(n)) THEN Append(active, n) ELSE active

\* this.nodeCounts[node.path]--
CountsAfterRelease(counts, path) ==
    IF path \notin DOMAIN counts \/ counts[path].nan THEN Put(counts, path, NaN)
    ELSE Put(counts, path, Num(counts[path].n - 1))

\* activeNodes.indexOf(node.node), counted from 0: a graph node has no field
\* "node", and undefined is never an element of the list
IndexOfNodeNode(active, n) == -1

\* unresolve, lines 233-239: swap the last element into slot i, then pop
SwapRemove(active, i) ==
    LET len == Len(active)
        swapped == IF i < len - 1 /\ i >= 0
                   THEN [active EXCEPT ![i + 1] = active[len]]
                   ELSE active
    IN IF len = 0 THEN active ELSE SubSeq(swapped, 1, len - 1)

\* unresolve, lines 232-240
ActiveAfterRelease(active, counts, n) ==
    LET path == NodePath(n)
    IN IF ~counts[path].nan /\ counts[path].n = 0
       THEN SwapRemove(active, IndexOfNodeNode(active, n))
       ELSE active

(***************************************************************************)
(* The calls explored: the paths handed to resolve and unresolve, the      *)
(* masks handed to assignMask, the mesh instances of the owning entity.    *)
(***************************************************************************)
PathOf(e, c, p) == [entityPath |-> e, component |-> c, propertyPath |-> p]

Paths ==
    { PathOf(<<"B">>, "graph", "localPosition"),       \* exact: node 2
      PathOf(<<"B">>, "graph", "weights"),             \* exact: node 2, morph
      PathOf(<<"B">>, "graph", "bogus"),               \* no handler
      PathOf(<<"B", "C">>, "graph", "localPosition"),  \* exact: node 3
      PathOf(<<"B", "C">>, "graph", "weights"),        \* node 3 has no morph
      PathOf(<<"Z", "C">>, "graph", "localPosition"),  \* fallback: node 5
      PathOf(<<"Z", "C">>, "entity", "localPosition"), \* fallback, not graph
      PathOf(<<"Y", "C">>, "graph", "localPosition"),  \* fallback: node 5
      PathOf(<<"D">>, "graph", "localPosition") }      \* no node until attached

\* a variant that leaves the component out of the key
KeyOfAnyComponent(p) == Encode(p.entityPath, "graph", p.propertyPath)

\* const encodedPath = AnimBinder.encode(path.entityPath, path.component,
\*                                       path.propertyPath);
KeyOf(p) == Encode(p.entityPath, p.component, p.propertyPath)

\* unresolve is also called with a path of another component whose last
\* segment names no node of the graph
UnresolvePaths ==
    Paths \cup { PathOf(<<"Q">>, "entity", "localPosition") }

Masks ==
    { NoMask,
      MaskOf([k \in {} |-> 0]),
      MaskOf([k \in {"B"} |-> Entry("true", TRUE)]) }

MeshOf(name, hasMorph, targets) ==
    [node |-> name, hasMorph |-> hasMorph, targets |-> targets]
NoMeshes == [defined |-> FALSE, list |-> <<>>]
MeshesOf(list) == [defined |-> TRUE, list |-> list]

ZeroWeights(mi) ==
    [m \in 1..Len(mi.list) |-> [i \in 1..MaxMorphTargets |-> 0]]

(***************************************************************************)
(* Debug (core/debug.js): the messages logged once and the trace channels. *)
(***************************************************************************)
MaxLogCalls == 3

\* channel.padEnd(20, ' ')
TracePadWidth == 20

Messages == {"x", "DEPRECATED: x"}
TraceChannels == {"RenderFrame", "RenderPass"}

RECURSIVE PadEnd(_, _)
PadEnd(str, width) ==
    IF Len(str) >= width THEN str ELSE PadEnd(str \o " ", width)

\* a variant that forgets what was logged
AlreadyLoggedNever(logged, message) == FALSE

\* Debug._loggedMessages.has(message)
AlreadyLogged(logged, message) == message \in logged

\* the common body of deprecated, logOnce, warnOnce and errorOnce
Once(op, level, prefix, message) ==
    /\ steps < MaxLogCalls
    /\ steps' = steps + 1
    /\ IF ~AlreadyLogged(loggedMessages, message)
       THEN /\ loggedMessages' = loggedMessages \cup {message}
            /\ console' = Append(console, [level |-> level,
                                           text |-> prefix \o message])
       ELSE UNCHANGED <<loggedMessages, console>>
    /\ written' = [written EXCEPT
                      ![message] = @ + (Len(console') - Len(console))]
    /\ carried' = carried \cup {message}
    /\ debugCall' = [op |-> op, message |-> message,
                     wrote |-> Len(console') - Len(console)]
    /\ UNCHANGED <<debugBuild, traceChannels, traceRequested>>

Deprecated(message) == Once("deprecated", "warn", "DEPRECATED: ", message)
LogOnce(message) == Once("logOnce", "log", "", message)
WarnOnce(message) == Once("warnOnce", "warn", "", message)
ErrorOnce(message) == Once("errorOnce", "error", "", message)

\* a variant that enables the channel whatever the flag
ChannelsAfterSetTraceAdding(build, channels, channel, enabled) ==
    channels \cup {channel}

\* the body of setTrace, kept by the build only under _DEBUG
ChannelsAfterSetTrace(build, channels, channel, enabled) ==
    IF ~build THEN channels
    ELSE IF enabled THEN channels \cup {channel}
    ELSE channels \ {channel}

SetTrace(channel, enabled) ==
    /\ steps < MaxLogCalls
    /\ steps' = steps + 1
    /\ traceChannels' =
           ChannelsAfterSetTrace(debugBuild, traceChannels, channel, enabled)
    /\ traceRequested' = [traceRequested EXCEPT ![channel] = enabled]
    /\ debugCall' = [op |-> "setTrace", channel |-> channel,
                     enabled |-> enabled, before |-> traceChannels]
    /\ UNCHANGED <<debugBuild, loggedMessages, console, written, carried>>

\* Debug._traceChannels.has(channel)
GetTrace(channels, channel) == channel \in channels

CallGetTrace(channel) ==
    /\ steps < MaxLogCalls
    /\ steps' = steps + 1
    /\ debugCall' = [op |-> "getTrace", channel |-> channel,
                     ret |-> GetTrace(traceChannels, channel)]
    /\ UNCHANGED <<debugBuild, loggedMessages, traceChannels, console, written,
                   carried, traceRequested>>

Trace(channel, arg) ==
    /\ steps < MaxLogCalls
    /\ steps' = steps + 1
    /\ console' =
           IF GetTrace(traceChannels, channel)
           THEN Append(console,
                       [level |-> "log",
                        text |-> PadEnd(channel, TracePadWidth) \o "|",
                        args |-> arg])
           ELSE console
    /\ debugCall' = [op |-> "trace", channel |-> channel,
                     wrote |-> Len(console') - Len(console)]
    /\ UNCHANGED <<debugBuild, loggedMessages, traceChannels, written, carried,
                   traceRequested>>

InitLog ==
    /\ loggedMessages = {}
    /\ traceChannels = {}
    /\ console = <<>>
    /\ debugCall = [op |-> "none"]
    /\ written = [m \in Messages |-> 0]
    /\ carried = {}
    /\ traceRequested = [c \in TraceChannels |-> FALSE]

(***************************************************************************)
(* LightComponent (lights-baked-ao.tsx, from line 192): the properties     *)
(* that are clamped on their way to the light.  A number is held in       *)
(* halves, so that Math.floor has something to do.                         *)
(***************************************************************************)
MaxAssignments == 2

MinCascades == 1
MaxCascades == 4
MinBakeSamples == 1
MaxBakeSamples == 255
MinBakeArea == 0
MaxBakeArea == 180

Undefined == [kind |-> "undefined"]
Half(h) == [nan |-> FALSE, h |-> h]
Whole(k) == Half(2 * k)
NotANumber == [nan |-> TRUE, h |-> 0]

\* a variant that keeps the fraction
FloorKeeping(x) == x

\* Math.floor
Floor(x) == IF x.nan THEN x ELSE Half((x.h \div 2) * 2)

\* math.clamp(value, min, max): every comparison with NaN is false
Clamp(x, min, max) ==
    IF ~x.nan /\ x.h >= max.h THEN max
    ELSE IF ~x.nan /\ x.h <= min.h THEN min
    ELSE x

\* the setter installed by _defineProperty, for a property whose setFunc
\* writes one field of the light
SetLightProperty(name, value, lightValue) ==
    /\ steps < MaxAssignments
    /\ steps' = steps + 1
    /\ lightCall' = [op |-> "set", name |-> name, value |-> value]
    /\ IF lightData[name] = value /\ ~value.nan
       THEN UNCHANGED <<lightData, lightObj>>
       ELSE /\ lightData' = [lightData EXCEPT ![name] = value]
            /\ lightObj' = [lightObj EXCEPT ![name] = lightValue]

SetNumCascades(value) ==
    SetLightProperty("numCascades", value,
                     Clamp(Floor(value), Whole(MinCascades), Whole(MaxCascades)))

SetBakeNumSamples(value) ==
    SetLightProperty("bakeNumSamples", value,
                     Clamp(Floor(value), Whole(MinBakeSamples),
                           Whole(MaxBakeSamples)))

SetBakeArea(value) ==
    SetLightProperty("bakeArea", value,
                     Clamp(value, Whole(MinBakeArea), Whole(MaxBakeArea)))

(***************************************************************************)
(* LightComponent: the cookie asset.  An asset is known by its id; it is   *)
(* a texture asset, so onCookieAssetSet never forces a load of faces.  The *)
(* handlers are functions of the part of the state they read and write:    *)
(*   asset, assetId, assetAdd   this._cookieAsset, _cookieAssetId, ...Add  *)
(*   cookie, lightCookie        this.data.cookie, this.light.cookie        *)
(*   subs                       the subscriptions held                     *)
(*   requested                  the assets handed to app.assets.load       *)
(***************************************************************************)
MaxCookieSteps == 4

\* no asset: null in _cookieAsset and _cookieAssetId
NoId == -1
AssetIds == {0, 1}

\* asset.resource of a loaded asset
Resource(a) == [kind |-> "texture", asset |-> a]

\* !this._cookieAssetId
IdFalsy(id) == id = NoId \/ id = 0

\* !this.cookie
CookieFalsy(cookie) == cookie \in {Null, Undefined}

\* the cookie setter: this.cookie = value
SetCookie(c, value) ==
    IF c.cookie = value THEN c
    ELSE [c EXCEPT !.cookie = value, !.lightCookie = value]

OnCookieAssetLoad(c, loaded) ==
    IF c.asset = NoId \/ c.asset \notin loaded THEN c
    ELSE SetCookie(c, Resource(c.asset))

OnCookieAssetSet(c, loaded) ==
    IF c.asset \notin loaded
    THEN [c EXCEPT !.requested = @ \cup {c.asset}]
    ELSE OnCookieAssetLoad(c, loaded)

OnCookieAssetAdd(c, a, enabled, loaded) ==
    IF c.assetId # a THEN c
    ELSE LET c1 == [c EXCEPT !.asset = a]
             c2 == IF enabled THEN OnCookieAssetSet(c1, loaded) ELSE c1
         IN [c2 EXCEPT !.subs = @ \cup {<<"load", a>>, <<"remove", a>>}]

OnCookieAssetRemove(c) ==
    IF IdFalsy(c.assetId) THEN c
    ELSE LET c1 == IF c.assetAdd
                   THEN [c EXCEPT !.subs = @ \ {<<"add", c.assetId>>},
                                  !.assetAdd = FALSE]
                   ELSE c
             c2 == IF c1.asset # NoId
                   THEN [c1 EXCEPT !.subs = @ \ {<<"load", c1.asset>>,
                                                 <<"remove", c1.asset>>},
                                   !.asset = NoId]
                   ELSE c1
         IN SetCookie(c2, Null)

\* the setFunc of cookieAsset; value is null, an asset id or an Asset
CookieAssetSetFunc(c, value, enabled, added, loaded) ==
    IF ~IdFalsy(c.assetId) /\ value.kind # "null" /\ value.id = c.assetId
    THEN c
    ELSE LET c1 == [OnCookieAssetRemove(c) EXCEPT !.assetId = NoId]
             c2 == [c1 EXCEPT !.assetId = value.id]
         IN CASE value.kind = "asset" ->
                     OnCookieAssetAdd([c2 EXCEPT !.dataCookieAsset =
                                           [kind |-> "id", id |-> value.id]],
                                      value.id, enabled, loaded)
              [] value.kind = "id" ->
                     IF value.id \in added
                     THEN OnCookieAssetAdd(c2, value.id, enabled, loaded)
                     ELSE [c2 EXCEPT !.assetAdd = TRUE,
                                     !.subs = @ \cup {<<"add", value.id>>}]
              [] OTHER -> c1

\* the part of the state the cookie handlers work on, and its write-back
CookieState ==
    [asset |-> cookieRefs.asset, assetId |-> cookieRefs.assetId,
     assetAdd |-> cookieRefs.assetAdd, cookie |-> lightData.cookie,
     dataCookieAsset |-> lightData.cookieAsset, lightCookie |-> lightObj.cookie,
     subs |-> subs, requested |-> registry.requested]

Store(c, enabled, added, loaded) ==
    /\ cookieRefs' = [asset |-> c.asset, assetId |-> c.assetId,
                      assetAdd |-> c.assetAdd]
    /\ lightData' = [lightData EXCEPT !.cookie = c.cookie,
                                      !.cookieAsset = c.dataCookieAsset]
    /\ lightObj' = [lightObj EXCEPT !.cookie = c.lightCookie,
                                    !.enabled = enabled]
    /\ subs' = c.subs
    /\ registry' = [added |-> added, loaded |-> loaded,
                    requested |-> c.requested \ loaded]

CookieValues ==
    {Null} \cup {[kind |-> k, id |-> a] : k \in {"id", "asset"}, a \in AssetIds}

\* component.cookieAsset = value
SetCookieAsset(value) ==
    /\ steps < MaxCookieSteps
    /\ steps' = steps + 1
    /\ lightCall' = [op |-> "set", name |-> "cookieAsset", value |-> value]
    /\ UNCHANGED layerVars
    /\ IF lightData.cookieAsset = value
       THEN UNCHANGED <<lightData, lightObj, cookieVars>>
       ELSE Store(CookieAssetSetFunc(
                      [CookieState EXCEPT !.dataCookieAsset = value], value,
                      lightObj.enabled, registry.added, registry.loaded),
                  lightObj.enabled, registry.added, registry.loaded)

\* app.assets.add(asset): the registry fires 'add:' + asset.id
RegistryAdd(a) ==
    /\ steps < MaxCookieSteps
    /\ steps' = steps + 1
    /\ a \notin registry.added
    /\ lightCall' = [op |-> "add", asset |-> a]
    /\ UNCHANGED layerVars
    /\ Store(IF <<"add", a>> \in subs
             THEN OnCookieAssetAdd(CookieState, a, lightObj.enabled,
                                   registry.loaded)
             ELSE CookieState,
             lightObj.enabled, registry.added \cup {a}, registry.loaded)

\* the resource of the asset arrives: the asset fires 'load'
LoadComplete(a) ==
    /\ steps < MaxCookieSteps
    /\ steps' = steps + 1
    /\ a \notin registry.loaded
    /\ lightCall' = [op |-> "load", asset |-> a]
    /\ UNCHANGED layerVars
    /\ Store(IF <<"load", a>> \in subs
             THEN OnCookieAssetLoad(CookieState, registry.loaded \cup {a})
             ELSE CookieState,
             lightObj.enabled, registry.added, registry.loaded \cup {a})

(***************************************************************************)
(* LightComponent: the layers.  A layer is known by its id; the light list *)
(* of a layer holds a light at most once.                                  *)
(***************************************************************************)
\* addLightToLayers(): every layer of the array that the scene has
AddLightToLayers(lit, ls, scene) == lit \cup (Elems(ls) \cap scene)

\* removeLightFromLayers()
RemoveLightFromLayers(lit, ls, scene) == lit \ (Elems(ls) \cap scene)

\* a variant of the setFunc of layers that leaves the old layers alone
LayersSetFuncKeepingOld(lit, old, new, scene, on) ==
    IF on THEN lit \cup (Elems(new) \cap scene) ELSE lit

\* the setFunc of layers: the light leaves the old layers and, when component
\* and entity are enabled, joins the new ones
LayersSetFunc(lit, old, new, scene, on) ==
    LET left == lit \ (Elems(old) \cap scene)
    IN IF on THEN left \cup (Elems(new) \cap scene) ELSE left

\* onLayerAdded(layer)
OnLayerAdded(lit, ls, l, on) == IF l \in Elems(ls) /\ on THEN lit \cup {l} ELSE lit

\* onLayerRemoved(layer)
OnLayerRemoved(lit, ls, l) == IF l \in Elems(ls) THEN lit \ {l} ELSE lit

\* onEnable(), with this.enabled and this.entity.enabled as they are when it
\* runs: the light is switched on, the component listens to the layers, the
\* light joins its layers, and a cookie asset without a cookie is set
EnableBody(f) ==
    /\ Store(IF cookieRefs.asset # NoId /\ CookieFalsy(lightData.cookie)
             THEN OnCookieAssetSet(CookieState, registry.loaded)
             ELSE CookieState,
             TRUE, registry.added, registry.loaded)
    /\ layerSubs' = TRUE
    /\ lightLayers' = IF f.component /\ f.entity
                      THEN AddLightToLayers(lightLayers, layers, sceneLayers)
                      ELSE lightLayers

\* onDisable()
DisableBody ==
    /\ Store(CookieState, FALSE, registry.added, registry.loaded)
    /\ layerSubs' = FALSE
    /\ lightLayers' = RemoveLightFromLayers(lightLayers, layers, sceneLayers)

OnEnable ==
    /\ steps < MaxCookieSteps
    /\ steps' = steps + 1
    /\ lightCall' = [op |-> "onEnable"]
    /\ EnableBody(flags)
    /\ UNCHANGED <<flags, layers, sceneLayers>>

OnDisable ==
    /\ steps < MaxCookieSteps
    /\ steps' = steps + 1
    /\ lightCall' = [op |-> "onDisable"]
    /\ DisableBody
    /\ UNCHANGED <<flags, layers, sceneLayers>>

\* LAYERID_WORLD, and the ids the scene and the component may use
LayerIdWorld == 0
LayerIds == {LayerIdWorld, 1}

\* a component on an entity that is not enabled yet: the default layers, a
\* scene that has the world layer, the light in no layer
InitLayers ==
    /\ flags = [component |-> TRUE, entity |-> FALSE]
    /\ layers = <<LayerIdWorld>>
    /\ sceneLayers = {LayerIdWorld}
    /\ lightLayers = {}
    /\ layerSubs = FALSE

\* a component whose data is still empty, over a light with its defaults
InitLight ==
    /\ lightData = [numCascades |-> Undefined, bakeNumSamples |-> Undefined,
                    bakeArea |-> Undefined, cookieAsset |-> Undefined,
                    cookie |-> Undefined, affectDynamic |-> TRUE,
                    affectLightmapped |-> FALSE, bake |-> FALSE]
    /\ lightObj = [numCascades |-> Whole(MinCascades),
                   bakeNumSamples |-> Whole(MinBakeSamples),
                   bakeArea |-> Whole(MinBakeArea),
                   cookie |-> Null, enabled |-> FALSE, mask |-> {"DYNAMIC"}]
    /\ maskSeen = [k \in {<<FALSE, FALSE>>} |-> {{}}]
    /\ lightCall = [op |-> "none"]
    /\ cookieRefs = [asset |-> NoId, assetId |-> NoId, assetAdd |-> FALSE]
    /\ subs = {}
    /\ InitLayers

\* no asset was added or loaded yet
InitRegistry == registry = [added |-> {}, loaded |-> {}, requested |-> {}]

\* the materials of the mesh instances before any texture was animated
NewMaterials(mi) ==
    [m \in 1..Len(mi.list) |-> [slots |-> [k \in {} |-> 0], updates |-> 0]]

\* the constructor assigns no animComponent
InitScene ==
    /\ animComponent = FALSE
    /\ materials = NewMaterials(meshInstances)

\* the binder runs in a debug build, with Debug and the light untouched
InitHost ==
    /\ debugBuild = TRUE
    /\ InitLog
    /\ InitLight
    /\ InitRegistry
    /\ InitScene

(***************************************************************************)
(* constructor                                                             *)
(***************************************************************************)
InitBinder ==
    /\ nodes = Flatten(present)
    /\ targetCache = [k \in {} |-> 0]
    /\ visitedFallbackGraphPaths = [k \in {} |-> 0]
    /\ nodeCounts = [k \in {} |-> 0]
    /\ activeNodes = <<>>
    /\ morphWeights = ZeroWeights(meshInstances)
    /\ warned = [k \in {} |-> 0]
    /\ fallbackUses = [k \in {} |-> 0]
    /\ dirtied = <<>>
    /\ nextId = 1
    /\ last = [op |-> "new"]
    /\ preResolve = [counts |-> [k \in {} |-> 0], active |-> <<>>]
    /\ pending = {}
    /\ contractOK = TRUE
    /\ everAbsent = {}
    /\ probe = [op |-> "none"]
    /\ steps = 0

Init ==
    /\ graphName = "A"
    /\ present = InitialNodes
    /\ meshInstances = MeshesOf(<<MeshOf("B", TRUE, MaxMorphTargets)>>)
    /\ mask = NoMask
    /\ InitBinder
    /\ InitHost

(***************************************************************************)
(* resolve(path)                                                           *)
(***************************************************************************)
\* mutant: a miss is remembered in the cache
BindNegativeCaching(p, found) ==
    LET miss == [ret |-> Null, cache |-> Put(targetCache, KeyOf(p), Null),
                 counts |-> nodeCounts, active |-> activeNodes, nextId |-> nextId]
    IN IF found.node = NoNode THEN miss
       ELSE IF p.propertyPath \notin HandlerNames THEN miss
       ELSE LET target == Handler(p.propertyPath, nextId, found.node)
            IN IF target = Null THEN miss
               ELSE [ret |-> target,
                     cache |-> Put(targetCache, KeyOf(p), target),
                     counts |-> CountsAfterBind(nodeCounts, NodePath(found.node)),
                     active |-> ActiveAfterBind(activeNodes, nodeCounts, found.node),
                     nextId |-> nextId + 1]

\* a variant that counts the node as soon as it is found, before the handler
\* is looked up and asked
BindCountingFirst(p, found) ==
    LET miss == [ret |-> Null, cache |-> targetCache, counts |-> nodeCounts,
                 active |-> activeNodes, nextId |-> nextId]
        counted == [miss EXCEPT
                       !.counts = CountsAfterBind(nodeCounts, NodePath(found.node)),
                       !.active = ActiveAfterBind(activeNodes, nodeCounts, found.node)]
    IN IF found.node = NoNode THEN miss
       ELSE IF p.propertyPath \notin HandlerNames THEN counted
       ELSE LET target == Handler(p.propertyPath, nextId, found.node)
            IN IF target = Null THEN counted
               ELSE [counted EXCEPT !.ret = target,
                                    !.cache = Put(targetCache, KeyOf(p), target),
                                    !.nextId = nextId + 1]

\* lines 198-222, after a cache miss: what resolve returns and stores
Bind(p, found) ==
    LET miss == [ret |-> Null, cache |-> targetCache, counts |-> nodeCounts,
                 active |-> activeNodes, nextId |-> nextId]
    IN IF found.node = NoNode THEN miss
       ELSE IF p.propertyPath \notin HandlerNames THEN miss
       ELSE LET target == Handler(p.propertyPath, nextId, found.node)
            IN IF target = Null THEN miss
               ELSE [ret |-> target,
                     cache |-> Put(targetCache, KeyOf(p), target),
                     counts |-> CountsAfterBind(nodeCounts, NodePath(found.node)),
                     active |-> ActiveAfterBind(activeNodes, nodeCounts, found.node),
                     nextId |-> nextId + 1]

\* findNode, lines 173-183: the debug bookkeeping of a fallback lookup
FallbackDiagnostics(found, p) ==
    LET f == FallbackGraphPath(p)
    IN IF found.fallback
       THEN /\ warned' = IF ShouldWarn(visitedFallbackGraphPaths, f)
                         THEN Put(warned, f, Count(warned, f) + 1)
                         ELSE warned
            /\ visitedFallbackGraphPaths' =
                   VisitedAfter(visitedFallbackGraphPaths, f)
            /\ fallbackUses' = Put(fallbackUses, f, Append(Uses(fallbackUses, f), p))
       ELSE UNCHANGED debugVars

\* the call before this one was resolve of the same path
Again(p) == last.op = "resolve" /\ last.path = p

\* the call resolve(path), counted as one step
ResolveCall(p) ==
    /\ steps' = steps + 1
    /\ preResolve' = [counts |-> nodeCounts, active |-> activeNodes]
    /\ IF CacheHit(targetCache, KeyOf(p))
       THEN /\ last' = [op |-> "resolve", path |-> p, ret |-> targetCache[KeyOf(p)],
                        hit |-> TRUE, again |-> Again(p),
                        held |-> KeyOf(p) \in pending]
            /\ UNCHANGED <<binderVars, debugVars>>
       ELSE LET found == FindNode(p)
                out == Bind(p, found)
            IN /\ last' = [op |-> "resolve", path |-> p, ret |-> out.ret,
                           hit |-> FALSE, again |-> Again(p),
                           held |-> KeyOf(p) \in pending]
               /\ targetCache' = out.cache
               /\ nodeCounts' = out.counts
               /\ activeNodes' = out.active
               /\ nextId' = out.nextId
               /\ FallbackDiagnostics(found, p)
    /\ pending' = IF last'.ret # Null /\ p.component = "graph"
                  THEN pending \cup {KeyOf(p)} ELSE pending
    /\ everAbsent' = IF last'.ret = Null THEN everAbsent \cup {KeyOf(p)}
                     ELSE everAbsent
    /\ UNCHANGED <<graphVars, mask, morphWeights, dirtied, contractOK, probe,
                   hostVars>>

Resolve(p) == steps < MaxSteps /\ ResolveCall(p)

(***************************************************************************)
(* unresolve(path)                                                         *)
(***************************************************************************)
\* a variant that releases paths of every component
IsGraphComponentAlways(p) == TRUE

\* if (path.component !== 'graph') return;
IsGraphComponent(p) == p.component = "graph"

\* the call unresolve(path), counted as one step
UnresolveCall(p) ==
    /\ steps' = steps + 1
    /\ IF ~IsGraphComponent(p)
       THEN /\ last' = [op |-> "unresolve", path |-> p, ret |-> Void]
            /\ UNCHANGED <<nodeCounts, activeNodes>>
       ELSE LET n == FlatLookup(nodes, LastName(p.entityPath))
            IN IF n = NoNode
               THEN \* node.path of undefined
                    /\ last' = [op |-> "unresolve", path |-> p, ret |-> TypeError]
                    /\ UNCHANGED <<nodeCounts, activeNodes>>
               ELSE /\ last' = [op |-> "unresolve", path |-> p, ret |-> Void]
                    /\ nodeCounts' = CountsAfterRelease(nodeCounts, NodePath(n))
                    /\ activeNodes' = ActiveAfterRelease(activeNodes, nodeCounts', n)
    /\ pending' = IF p.component = "graph" THEN pending \ {KeyOf(p)} ELSE pending
    /\ contractOK' = (contractOK /\ (p.component = "graph" => KeyOf(p) \in pending))
    /\ UNCHANGED <<graphVars, mask, morphWeights, targetCache, nextId, debugVars,
                   dirtied, preResolve, everAbsent, probe, hostVars>>

Unresolve(p) == steps < MaxSteps /\ UnresolveCall(p)

(***************************************************************************)
(* update(deltaTime)                                                       *)
(***************************************************************************)
\* the call update(deltaTime), counted as one step
UpdateCall ==
    /\ steps' = steps + 1
    /\ dirtied' = activeNodes
    /\ last' = [op |-> "update"]
    /\ UNCHANGED <<graphVars, mask, morphWeights, binderVars, debugVars,
                   preResolve, pending, contractOK, everAbsent, probe,
                   hostVars>>

Update == steps < MaxSteps /\ UpdateCall

(***************************************************************************)
(* assignMask(mask)                                                        *)
(***************************************************************************)
\* mutant: a new mask evicts the targets cached under the old one
AssignMaskEvicting(m) ==
    /\ steps < MaxSteps
    /\ steps' = steps + 1
    /\ mask' = m
    /\ targetCache' = [k \in {} |-> 0]
    /\ last' = [op |-> "assignMask", mask |-> m]
    /\ UNCHANGED <<graphVars, morphWeights, nodeCounts, activeNodes, nextId,
                   debugVars, dirtied, preResolve, pending, contractOK, everAbsent,
                   probe, hostVars>>

AssignMask(m) ==
    /\ steps < MaxSteps
    /\ steps' = steps + 1
    /\ mask' = m
    /\ last' = [op |-> "assignMask", mask |-> m]
    /\ UNCHANGED <<graphVars, morphWeights, binderVars, debugVars, dirtied,
                   preResolve, pending, contractOK, everAbsent, probe,
                   hostVars>>

(***************************************************************************)
(* The application attaches a node to the graph after the binder was built. *)
(***************************************************************************)
AttachNode(n) ==
    /\ steps < MaxSteps
    /\ n \notin present
    /\ Parent[n] \in present
    /\ steps' = steps + 1
    /\ present' = present \cup {n}
    /\ last' = [op |-> "attach", node |-> n]
    /\ UNCHANGED <<graphName, meshInstances, nodes, mask, morphWeights, binderVars,
                   debugVars, dirtied, preResolve, pending, contractOK, everAbsent,
                   probe, hostVars>>

Next ==
    \/ \E p \in Paths : Resolve(p)
    \/ \E p \in UnresolvePaths : Unresolve(p)
    \/ Update
    \/ \E m \in Masks : AssignMask(m)
    \/ \E n \in NodeIds : AttachNode(n)

Spec == Init /\ [][Next]_vars

(***************************************************************************)
(* Properties of the binder.                                               *)
(***************************************************************************)
\* the reference count of node n, an absent entry counting as 0
RefCount(counts, n) ==
    IF NodePath(n) \in DOMAIN counts THEN counts[NodePath(n)] ELSE Num(0)

Positive(c) == ~c.nan /\ c.n > 0

Occurrences(seq, x) == Cardinality({i \in 1..Len(seq) : seq[i] = x})

\* C1: resolve is idempotent: when resolve is called twice in succession with
\* the same path, graph and mask unchanged, the second call returns the very
\* Target instance the first returned (or absent again) and changes neither a
\* reference count nor the active node list.
C1_ResolveIdempotent ==
    [][ (/\ last.op = "resolve"
         /\ last'.op = "resolve"
         /\ last'.path = last.path
         /\ mask' = mask
         /\ present' = present)
        => /\ last'.ret = last.ret
           /\ nodeCounts' = nodeCounts
           /\ activeNodes' = activeNodes ]_vars

\* C1 witness: a second successive resolve of a path returned a Target
C1_Witness ==
    /\ last.op = "resolve"
    /\ last.again
    /\ last.ret.kind = "target"

\* C2: for a graph path p the caller does not hold, resolve(p) returning a
\* Target followed immediately by unresolve(p) leaves every node's reference
\* count and the membership of the active node list as they were before the
\* resolve (the calls before having kept the resolve/unresolve pairing, and
\* the flat index naming the very node the Target is bound to).
C2_ResolveUnresolveRestores ==
    [][ (/\ last.op = "resolve"
         /\ last.path.component = "graph"
         /\ last.ret.kind = "target"
         /\ ~last.held
         /\ contractOK
         /\ FlatLookup(nodes, LastName(last.path.entityPath)) = last.ret.node
         /\ last'.op = "unresolve"
         /\ last'.path = last.path)
        => /\ \A n \in NodeIds :
                 RefCount(nodeCounts', n) = RefCount(preResolve.counts, n)
           /\ Elems(activeNodes') = Elems(preResolve.active) ]_vars

\* the active node list holds exactly the nodes of positive count, once each
ActiveMatchesCounts ==
    \A n \in NodeIds :
        Occurrences(activeNodes, n) =
            IF Positive(RefCount(nodeCounts, n)) THEN 1 ELSE 0

\* C3: as long as every unresolve is paired with a prior successful graph-path
\* resolve, the active node list holds exactly the nodes whose reference count
\* is positive, each once, and update() marks exactly those nodes dirty.
C3_ActiveListMatchesCounts ==
    contractOK =>
        /\ ActiveMatchesCounts
        /\ last.op = "update" =>
              \A n \in NodeIds :
                  Occurrences(dirtied, n) =
                      IF Positive(RefCount(nodeCounts, n)) THEN 1 ELSE 0

\* C4: a resolve of a path that no exact traversal and no flat-index name
\* finds returns absent, stores nothing in the target cache and changes no
\* reference count; and a resolve of a path that returned absent before
\* returns a Target once the path is active, the graph lookup finds a node
\* and the handler supports it.
C4_NoNegativeCaching ==
    [][ last'.op = "resolve" =>
        LET p == last'.path
            exact == FindByPath(present, p.entityPath)
        IN /\ (/\ exact = NoNode
               /\ LastName(p.entityPath) \notin DOMAIN nodes)
              => /\ last'.ret = Null
                 /\ targetCache' = targetCache
                 /\ nodeCounts' = nodeCounts
                 /\ activeNodes' = activeNodes
           /\ (/\ KeyOf(p) \in everAbsent
               /\ IsPathActive(mask, graphName, p.entityPath)
               /\ exact # NoNode
               /\ p.propertyPath \in HandlerNames
               /\ Handler(p.propertyPath, nextId, exact) # Null)
              => /\ last'.ret.kind = "target"
                 /\ last'.ret.node = exact ]_vars

\* C4 witness: a path that resolve once reported absent resolved to a Target
\* on a node attached to the graph since
C4_Witness ==
    /\ last.op = "resolve"
    /\ last.ret.kind = "target"
    /\ KeyOf(last.path) \in everAbsent
    /\ last.ret.node \notin InitialNodes

\* C8: for each fallback canonical form, k fallback uses have produced k - 1
\* warnings: none for the first use, one for each use after it (stated here
\* for uses by distinct paths whose fallback name is in the flat index).
C8_FallbackWarnings ==
    \A f \in DOMAIN fallbackUses :
        LET uses == fallbackUses[f]
        IN (/\ \A i, j \in 1..Len(uses) : uses[i] = uses[j] => i = j
            /\ \A i \in 1..Len(uses) : LastName(uses[i].entityPath) \in DOMAIN nodes)
           => Count(warned, f) = Len(uses) - 1

\* C10: assignMask replaces the mask and nothing else: the target cache, the
\* reference counts and the active node list are unchanged by it; afterwards
\* a path cached before still resolves to its cached Target whatever the new
\* mask says, and a path not cached that the new mask rejects resolves to
\* absent and binds nothing.
C10_AssignMaskFrame ==
    [][ /\ last'.op = "assignMask" =>
              /\ mask' = last'.mask
              /\ targetCache' = targetCache
              /\ nodeCounts' = nodeCounts
              /\ activeNodes' = activeNodes
        /\ last'.op = "resolve" =>
              LET p == last'.path
              IN /\ KeyOf(p) \in DOMAIN targetCache =>
                        last'.ret = targetCache[KeyOf(p)]
                 /\ (/\ KeyOf(p) \notin DOMAIN targetCache
                     /\ ~IsPathActive(mask, graphName, p.entityPath))
                    => /\ last'.ret = Null
                       /\ targetCache' = targetCache
                       /\ nodeCounts' = nodeCounts
                       /\ activeNodes' = activeNodes ]_vars

\* C10 witness: a path bound before the mask was replaced resolved to its
\* Target although the mask now installed rejects the path
C10_Witness ==
    /\ last.op = "resolve"
    /\ last.hit
    /\ last.ret.kind = "target"
    /\ mask.installed
    /\ ~IsPathActive(mask, graphName, last.path.entityPath)

\* C11: an unresolve of a path whose component is not "graph" changes
\* neither the target cache, nor the reference counts, nor the active node
\* list, and it returns without an error, also when the last segment of the
\* path names no node of the flat index
C11_NonGraphUnresolveNoOp ==
    [][ (last'.op = "unresolve" /\ last'.path.component # "graph")
            => /\ last'.ret = Void
               /\ targetCache' = targetCache
               /\ nodeCounts' = nodeCounts
               /\ activeNodes' = activeNodes ]_vars

\* C11 witness: unresolve has returned normally for a path of another
\* component whose last segment is not in the flat index, while the binder
\* held counted nodes
C11_Witness ==
    /\ last.op = "unresolve"
    /\ last.path.component # "graph"
    /\ FlatLookup(nodes, LastName(last.path.entityPath)) = NoNode
    /\ last.ret = Void
    /\ activeNodes # <<>>

\* C12: only paths of the "graph" component take part in reference counting:
\* a resolve or an unresolve of a path of another component changes no
\* reference count and leaves the active node list as it is
C12_OnlyGraphPathsCounted ==
    [][ (last'.op \in {"resolve", "unresolve"} /\ last'.path.component # "graph")
            => /\ nodeCounts' = nodeCounts
               /\ activeNodes' = activeNodes ]_vars

\* C13: an unresolve of a graph path completes without raising an error, also
\* when the path was never resolved, is unresolved a second time, or has a
\* last segment that names no node of the flat index
C13_UnresolveNeverRaises ==
    (last.op = "unresolve" /\ last.path.component = "graph")
        => last.ret # TypeError

\* C14: after any sequence of calls, unpaired and repeated unresolves
\* included, every entry of the reference count table is an integer that is
\* not negative
C14_CountsNeverNegative ==
    \A k \in DOMAIN nodeCounts : ~nodeCounts[k].nan /\ nodeCounts[k].n >= 0

\* the nodes some Target of the target cache is bound to
CachedNodes == {targetCache[k].node : k \in DOMAIN targetCache}

\* C16: as long as every unresolve is paired with a prior successful graph-path
\* resolve, the reference count of a node is zero or absent exactly when no
\* entry of the target cache holds a Target bound to that node
C16_CountZeroIffNoCachedTarget ==
    contractOK =>
        \A n \in NodeIds :
            (RefCount(nodeCounts, n) = Num(0)) <=> (n \notin CachedNodes)

(***************************************************************************)
(* The mask evaluator on its own: a binder over a graph whose root is      *)
(* named A or R, holding any mask of at most MaxMaskEntries entries, is    *)
(* asked whether a path is active.                                         *)
(***************************************************************************)
MaskKeys == {"A", "A/B", "R/B"}
RootNames == {"A", "R"}
Entries == {Entry(v, c) : v \in {"true", "false", "undefined"}, c \in BOOLEAN}

MaskUniverse ==
    {NoMask} \cup
    UNION { {MaskOf(e) : e \in [K -> Entries]} :
            K \in {S \in SUBSET MaskKeys : Cardinality(S) <= MaxMaskEntries} }

ProbePaths ==
    { <<>>, <<"A">>, <<"B">>, <<"A", "B">>, <<"A", "X">>,
      <<"A", "B", "C">>, <<"R", "B">> }

InitMask ==
    /\ graphName \in RootNames
    /\ present = InitialNodes
    /\ meshInstances = NoMeshes
    /\ mask \in MaskUniverse
    /\ InitBinder
    /\ InitHost

ProbeIsPathActive(path) ==
    /\ probe' = [op |-> "isPathActive", path |-> path,
                 ret |-> IsPathActive(mask, graphName, path)]
    /\ UNCHANGED <<graphVars, mask, morphWeights, binderVars, debugVars, dirtied,
                   last, preResolve, pending, contractOK, everAbsent, steps,
                   hostVars>>

NextMask == \E path \in ProbePaths : ProbeIsPathActive(path)

SpecMask == InitMask /\ [][NextMask]_vars

\* the mask { "A/B": { children: true } }
SubtreeMask == MaskOf([k \in {"A/B"} |-> Entry("undefined", TRUE)])

\* C5: with the mask { "A/B": { children: true } } installed, the path A/B/C
\* is active although the mask has no entry A/B/C, and the path A/X, which is
\* not under A/B, is inactive.
C5_SubtreeInclusion ==
    (probe.op = "isPathActive" /\ mask = SubtreeMask) =>
        /\ probe.path = <<"A", "B", "C">> => probe.ret
        /\ probe.path = <<"A", "X">> => ~probe.ret

\* C5 witness: A/B/C was found active under that mask
C5_Witness ==
    /\ probe.op = "isPathActive"
    /\ mask = SubtreeMask
    /\ probe.path = <<"A", "B", "C">>
    /\ probe.ret

\* the mask holds value: false at exactly A/B, and A/B was asked for on a
\* graph whose root is named A
ExcludedAB ==
    /\ probe.op = "isPathActive"
    /\ probe.path = <<"A", "B">>
    /\ graphName = "A"
    /\ HasEntry(mask, "A/B")
    /\ mask.entries["A/B"].value = "false"

AncestorIncludesChildren == HasEntry(mask, "A") /\ mask.entries["A"].children

\* C6 as stated: with value: false at exactly A/B, the path A/B is inactive
\* even if the ancestor A has an entry with children: true.
C6_ExclusionOverrides == ExcludedAB => ~probe.ret

\* C6 amended: with value: false at exactly A/B, the path A/B is active
\* exactly when A or A/B itself has an entry with children: true; an
\* ancestor's children: true wins over the explicit exclusion.
C6_InheritanceOverrides ==
    ExcludedAB =>
        probe.ret = (AncestorIncludesChildren \/ mask.entries["A/B"].children)

\* C6 witness: A/B is active under value: false because A has children: true
C6_Witness ==
    /\ ExcludedAB
    /\ AncestorIncludesChildren
    /\ ~mask.entries["A/B"].children
    /\ probe.ret

\* the candidate paths of the claim: the entity path, and the entity path
\* with its first segment replaced by the root's name when those differ
Candidates(path) ==
    {path} \cup
    (IF path = <<>> THEN {<<graphName>>}
     ELSE IF path[1] # graphName
          THEN {[path EXCEPT ![1] = graphName]}
          ELSE {})

\* a mask entry at the full candidate with value not false
EntryAllows(c) == HasEntry(mask, Join(c)) /\ mask.entries[Join(c)].value # "false"

\* a mask entry with children: true at a prefix of the candidate of one of
\* the given lengths
ChildrenAllow(c, lengths) ==
    \E k \in lengths :
        /\ HasEntry(mask, Join(SubSeq(c, 1, k)))
        /\ mask.entries[Join(SubSeq(c, 1, k))].children

\* C7 as stated: _isPathActive is true without a mask; with one it is true
\* exactly when some candidate has an entry with value not false at the full
\* path or an entry with children: true at an ancestor prefix (stated here
\* for the paths of at least one segment).
C7_ActiveByAncestors ==
    (probe.op = "isPathActive" /\ probe.path # <<>>) =>
        probe.ret =
            (\/ ~mask.installed
             \/ \E c \in Candidates(probe.path) :
                    EntryAllows(c) \/ ChildrenAllow(c, 1..(Len(c) - 1)))

\* C7 amended: the same, the prefixes asked for children: true being all the
\* prefixes of the candidate, the full candidate included.
C7_ActiveByPrefixes ==
    probe.op = "isPathActive" =>
        probe.ret =
            (\/ ~mask.installed
             \/ \E c \in Candidates(probe.path) :
                    EntryAllows(c) \/ ChildrenAllow(c, 1..Len(c)))

\* C7 witness: a path is active only through the children: true of the entry
\* at the root-renamed candidate itself, whose value is false
C7_Witness ==
    /\ probe.op = "isPathActive"
    /\ mask.installed
    /\ probe.ret
    /\ graphName = "R"
    /\ probe.path = <<"A", "B">>
    /\ ~HasEntry(mask, "A/B")
    /\ ~HasEntry(mask, "A")
    /\ HasEntry(mask, "R/B")
    /\ mask.entries["R/B"].value = "false"

(***************************************************************************)
(* The weights handler on its own: for any mesh instances of the owning    *)
(* entity, the handler is called with a node and the Target it returns is  *)
(* invoked with a vector.                                                  *)
(***************************************************************************)
MeshChoices ==
    {MeshOf(nm, FALSE, 0) : nm \in {"B", "C"}} \cup
    {MeshOf(nm, TRUE, t) : nm \in {"B", "C"}, t \in 1..MaxMorphTargets}

MeshUniverse ==
    {NoMeshes} \cup
    UNION { {MeshesOf(l) : l \in [1..k -> MeshChoices]} : k \in 0..MaxMeshes }

Vectors == UNION { [1..k -> {1, 2}] : k \in 1..MaxMorphTargets }

InitWeights ==
    /\ graphName = "A"
    /\ present = InitialNodes
    /\ meshInstances \in MeshUniverse
    /\ mask = NoMask
    /\ InitBinder
    /\ InitHost

CallWeightsHandler(n) ==
    /\ probe.op # "invoke"
    /\ probe' = [op |-> "weights", node |-> n, ret |-> HandlerWeights(nextId, n)]
    /\ UNCHANGED <<graphVars, mask, morphWeights, binderVars, debugVars, dirtied,
                   last, preResolve, pending, contractOK, everAbsent, steps,
                   hostVars>>

InvokeWeightsTarget(value) ==
    /\ probe.op = "weights"
    /\ probe.ret.kind = "target"
    /\ morphWeights' = WeightsFunc(morphWeights, probe.ret.morphs, value, 1)
    /\ probe' = [op |-> "invoke", node |-> probe.node, ret |-> probe.ret,
                 value |-> value]
    /\ UNCHANGED <<graphVars, mask, binderVars, debugVars, dirtied,
                   last, preResolve, pending, contractOK, everAbsent, steps,
                   hostVars>>

NextWeights ==
    \/ \E n \in present : CallWeightsHandler(n)
    \/ \E value \in Vectors : InvokeWeightsTarget(value)

SpecWeights == InitWeights /\ [][NextWeights]_vars

\* the mesh instances attached at node n that carry a morph instance
MorphsAt(n) ==
    IF ~meshInstances.defined THEN {}
    ELSE {k \in 1..Len(meshInstances.list) :
            /\ meshInstances.list[k].node = NodeName(n)
            /\ meshInstances.list[k].hasMorph}

FirstOf(S) == CHOOSE k \in S : \A j \in S : k <= j

\* what invoking the Target did: weight i of every morph instance at the
\* node is value[i]
WeightsSetByIndex ==
    (probe.op = "invoke" /\ Len(probe.value) = probe.ret.valueCount) =>
        \A m \in MorphsAt(probe.node) :
            \A i \in 1..Len(probe.value) : morphWeights[m][i] = probe.value[i]

\* C9 as stated: the weights handler returns absent for a node with no morph
\* instance, and for a node with K morph instances a Target of value count K
\* that, invoked with a K-length vector, sets weight i to value[i].
C9_ValueCountIsInstanceCount ==
    /\ probe.op \in {"weights", "invoke"} =>
          LET K == Cardinality(MorphsAt(probe.node))
          IN /\ K = 0 => probe.ret = Null
             /\ K > 0 => (probe.ret.kind = "target" /\ probe.ret.valueCount = K)
    /\ WeightsSetByIndex

\* C9 amended: the weights handler returns absent for a node with no morph
\* instance; otherwise it returns a Target whose value count is the number of
\* morph targets of the first morph instance at the node, and invoking it
\* with a vector of that length sets weight i of every morph instance at the
\* node to value[i].
C9_ValueCountIsTargetCount ==
    /\ probe.op \in {"weights", "invoke"} =>
          LET S == MorphsAt(probe.node)
          IN /\ S = {} => probe.ret = Null
             /\ S # {} =>
                   /\ probe.ret.kind = "target"
                   /\ probe.ret.valueCount = meshInstances.list[FirstOf(S)].targets
    /\ WeightsSetByIndex

\* C9 witness: a Target over two morph instances, the first of one morph
\* target, has value count 1 and was invoked with a vector of one value
C9_Witness ==
    /\ probe.op = "invoke"
    /\ Cardinality(MorphsAt(probe.node)) = 2
    /\ probe.ret.valueCount = 1
    /\ Len(probe.value) = 1
    /\ \A m \in MorphsAt(probe.node) : morphWeights[m][1] = probe.value[1]

(***************************************************************************)
(* The cache key on its own: the key resolve computes for any two paths    *)
(* of at most MaxSegments segments whose names hold no separator.          *)
(***************************************************************************)
MaxSegments == 2

KeyNames == {"", "a", "b"}
KeySegments == UNION {[1..n -> KeyNames] : n \in 0..MaxSegments}
KeyComponents == {"graph", "entity"}
KeyProperties == {"localPosition", "weights"}
KeyPaths ==
    {PathOf(e, c, q) : e \in KeySegments, c \in KeyComponents,
                       q \in KeyProperties}

ProbeKeys(p, q) ==
    /\ probe.op = "none"
    /\ probe' = [op |-> "encode", p |-> p, q |-> q,
                 kp |-> KeyOf(p), kq |-> KeyOf(q)]
    /\ UNCHANGED <<graphVars, mask, morphWeights, binderVars, debugVars, dirtied,
                   last, preResolve, pending, contractOK, everAbsent, steps,
                   hostVars>>

NextKey == \E p \in KeyPaths, q \in KeyPaths : ProbeKeys(p, q)

SpecKey == Init /\ [][NextKey]_vars

\* the empty segment list and the list of one empty name
EmptyForms == {<<>>, <<"">>}

InitDebug ==
    /\ graphName = "A"
    /\ present = InitialNodes
    /\ meshInstances = NoMeshes
    /\ mask = NoMask
    /\ InitBinder
    /\ debugBuild \in BOOLEAN
    /\ InitLog
    /\ InitLight
    /\ InitRegistry
    /\ InitScene

DebugStep(A) ==
    A /\ UNCHANGED <<graphVars, mask, morphWeights, binderVars, debugVars,
                     dirtied, last, preResolve, pending, contractOK, everAbsent,
                     probe, lightVars, sceneVars>>

NextDebug ==
    \/ \E m \in Messages : DebugStep(Deprecated(m))
    \/ \E m \in Messages : DebugStep(LogOnce(m))
    \/ \E m \in Messages : DebugStep(WarnOnce(m))
    \/ \E m \in Messages : DebugStep(ErrorOnce(m))
    \/ \E c \in TraceChannels, e \in BOOLEAN : DebugStep(SetTrace(c, e))
    \/ \E c \in TraceChannels : DebugStep(CallGetTrace(c))
    \/ \E c \in TraceChannels, m \in Messages : DebugStep(Trace(c, m))

SpecDebug == InitDebug /\ [][NextDebug]_vars

TraceChannelsFollowSetTrace ==
    /\ \A c \in TraceChannels :
           GetTrace(traceChannels, c) <=> traceRequested[c]
    /\ debugCall.op = "getTrace" =>
           (debugCall.ret <=> traceRequested[debugCall.channel])
    /\ debugCall.op = "trace" =>
           /\ debugCall.wrote \in {0, 1}
           /\ debugCall.wrote = 1 <=> GetTrace(traceChannels, debugCall.channel)
    /\ debugCall.op = "setTrace" =>
           \A c \in TraceChannels \ {debugCall.channel} :
               GetTrace(traceChannels, c) <=> GetTrace(debugCall.before, c)

\* C18 (as claimed): in every build, getTrace(channel) is true exactly when
\* the most recent setTrace of that channel had enabled = true, trace writes
\* to the console exactly when getTrace(channel) is true, and setTrace on one
\* channel never changes the state of another
C18_TraceChannels == TraceChannelsFollowSetTrace

\* C18 (amended): the same holds in a debug build, where the body of
\* setTrace is kept; in a build without _DEBUG setTrace changes nothing,
\* getTrace is false for every channel and trace never writes
C18_TraceChannelsInDebugBuild ==
    /\ debugBuild => TraceChannelsFollowSetTrace
    /\ ~debugBuild =>
           /\ \A c \in TraceChannels : ~GetTrace(traceChannels, c)
           /\ debugCall.op = "getTrace" => ~debugCall.ret
           /\ debugCall.op = "trace" => debugCall.wrote = 0

\* C18 witness: in a debug build a channel was enabled while the other was
\* not, and trace wrote the padded name of the first to the console
C18_Witness ==
    /\ debugBuild
    /\ debugCall.op = "trace"
    /\ debugCall.wrote = 1
    /\ \E c \in TraceChannels \ {debugCall.channel} :
           ~traceRequested[c] /\ ~GetTrace(traceChannels, c)
    /\ console[Len(console)].text = "RenderFrame         |"

(***************************************************************************)
(* The clamped light properties on their own: any MaxAssignments           *)
(* assignments of numbers around the limits, NaN included.                 *)
(***************************************************************************)
Around(k) == {2 * k - 1, 2 * k, 2 * k + 1}

LightNumbers ==
    {NotANumber} \cup
    {Half(h) : h \in UNION {Around(k) : k \in {-1, MinBakeArea, MinCascades,
                                                MaxCascades, MaxBakeArea,
                                                MaxBakeSamples}}}

ClampStep(A) ==
    A /\ UNCHANGED <<graphVars, mask, morphWeights, binderVars, debugVars,
                     dirtied, last, preResolve, pending, contractOK, everAbsent,
                     probe, logVars, cookieVars, layerVars, sceneVars, maskSeen>>

NextClamp ==
    \/ \E v \in LightNumbers : ClampStep(SetNumCascades(v))
    \/ \E v \in LightNumbers : ClampStep(SetBakeNumSamples(v))
    \/ \E v \in LightNumbers : ClampStep(SetBakeArea(v))

SpecClamp == Init /\ [][NextClamp]_vars

IsWholeIn(x, min, max) ==
    ~x.nan /\ x.h % 2 = 0 /\ 2 * min <= x.h /\ x.h <= 2 * max

IsIn(x, min, max) == ~x.nan /\ 2 * min <= x.h /\ x.h <= 2 * max

LightInRange(name) ==
    CASE name = "numCascades" ->
             IsWholeIn(lightObj.numCascades, MinCascades, MaxCascades)
      [] name = "bakeNumSamples" ->
             IsWholeIn(lightObj.bakeNumSamples, MinBakeSamples, MaxBakeSamples)
      [] name = "bakeArea" ->
             IsIn(lightObj.bakeArea, MinBakeArea, MaxBakeArea)

\* C20 (as claimed): after any assignment to numCascades the numCascades of
\* the light is an integer in 1..4, after any assignment to bakeNumSamples
\* its bakeNumSamples is an integer in 1..255, and after any assignment to
\* bakeArea its bakeArea lies in 0..180
C20_LightPropertiesClamped ==
    lightCall.op = "set" => LightInRange(lightCall.name)

\* C20 (amended): the same after any assignment of a number that is not NaN;
\* after an assignment of NaN the field of the light is NaN
C20_LightPropertiesClampedUnlessNaN ==
    lightCall.op = "set" =>
        IF lightCall.value.nan THEN lightObj[lightCall.name].nan
        ELSE LightInRange(lightCall.name)

\* C20 witness: 255.5 was assigned to bakeNumSamples and the light holds 255
C20_Witness ==
    /\ lightCall.op = "set"
    /\ lightCall.name = "bakeNumSamples"
    /\ lightCall.value = Half(2 * MaxBakeSamples + 1)
    /\ lightObj.bakeNumSamples = Whole(MaxBakeSamples)

(***************************************************************************)
(* The cookie asset on its own: any MaxCookieSteps of assignments to       *)
(* cookieAsset, assets added to the registry, assets loaded, onEnable and  *)
(* onDisable, from a registry that may already hold and have loaded some   *)
(* of the assets.                                                          *)
(***************************************************************************)
InitCookie ==
    /\ graphName = "A"
    /\ present = InitialNodes
    /\ meshInstances = NoMeshes
    /\ mask = NoMask
    /\ InitBinder
    /\ debugBuild = TRUE
    /\ InitLog
    /\ InitLight
    /\ InitScene
    /\ \E added \in SUBSET AssetIds, loaded \in SUBSET AssetIds :
           registry = [added |-> added, loaded |-> loaded, requested |-> {}]

CookieStep(A) ==
    A /\ UNCHANGED <<graphVars, mask, morphWeights, binderVars, debugVars,
                     dirtied, last, preResolve, pending, contractOK, everAbsent,
                     probe, logVars, sceneVars, maskSeen>>

NextCookie ==
    \/ \E v \in CookieValues : CookieStep(SetCookieAsset(v))
    \/ \E a \in AssetIds : CookieStep(RegistryAdd(a))
    \/ \E a \in AssetIds : CookieStep(LoadComplete(a))
    \/ CookieStep(OnEnable)
    \/ CookieStep(OnDisable)

SpecCookie == InitCookie /\ [][NextCookie]_vars

\* the asset cookieAsset was last assigned, NoId for null
AssignedAsset ==
    IF lightData.cookieAsset \in {Null, Undefined} THEN NoId
    ELSE lightData.cookieAsset.id

\* C19: once cookieAsset was assigned an asset id or an Asset, that asset is
\* in the registry, its resource is available and the light is enabled, the
\* cookie of the component and of the light is the resource of that asset,
\* whatever the order of the assignment, the 'add' event, the 'load' event
\* and onEnable
C19_CookieFollowsAsset ==
    (/\ AssignedAsset # NoId
     /\ AssignedAsset \in registry.added
     /\ AssignedAsset \in registry.loaded
     /\ lightObj.enabled)
        => /\ lightData.cookie = Resource(AssignedAsset)
           /\ lightObj.cookie = Resource(AssignedAsset)

(***************************************************************************)
(* The reference counter on its own: any MaxCountSteps calls of resolve,   *)
(* unresolve and update over a few paths, with no mask and a graph that    *)
(* does not change.                                                        *)
(***************************************************************************)
MaxCountSteps == 5

CountPaths ==
    { PathOf(<<"B">>, "graph", "localPosition"),
      PathOf(<<"B">>, "graph", "weights"),
      PathOf(<<"B", "C">>, "graph", "localPosition") }

NextCount ==
    \/ \E p \in CountPaths : steps < MaxCountSteps /\ ResolveCall(p)
    \/ \E p \in CountPaths : steps < MaxCountSteps /\ UnresolveCall(p)
    \/ steps < MaxCountSteps /\ UpdateCall

SpecCount == Init /\ [][NextCount]_vars

\* C21: as long as every unresolve was paired, a successful resolve that is
\* not a cache hit stores the new Target under the canonical key of the path
\* and raises the reference count of the node by exactly one: a node with no
\* live binding gets count 1 and is appended to the active node list, a node
\* with live bindings has its count incremented and is not inserted again
C21_ResolveCountsNewBinding ==
    [][ (contractOK /\ last'.op = "resolve" /\ ~last'.hit /\ last'.ret # Null)
            => LET n == last'.ret.node
                   key == KeyOf(last'.path)
                   before == RefCount(nodeCounts, n)
                   after == RefCount(nodeCounts', n)
               IN /\ key \in DOMAIN targetCache'
                  /\ targetCache'[key] = last'.ret
                  /\ ~before.nan /\ ~after.nan
                  /\ after.n = before.n + 1
                  /\ ~Positive(before) =>
                         /\ after = Num(1)
                         /\ activeNodes' = Append(activeNodes, n)
                  /\ Positive(before) => activeNodes' = activeNodes ]_vars

\* C22: when an unresolve of a graph path drops the reference count of a node
\* to zero, exactly that node leaves the active node list and every other
\* node of the list is still in it; when the count stays above zero the list
\* is unchanged
C22_UnresolveRemovesThatNode ==
    [][ (contractOK' /\ last'.op = "unresolve" /\ last'.ret = Void
         /\ last'.path.component = "graph")
            => LET n == FlatLookup(nodes, LastName(last'.path.entityPath))
                   after == RefCount(nodeCounts', n)
               IN /\ after = Num(0) =>
                         /\ Elems(activeNodes') = Elems(activeNodes) \ {n}
                         /\ Len(activeNodes') = Len(activeNodes) - 1
                  /\ Positive(after) => activeNodes' = activeNodes ]_vars

\* C28: as long as every unresolve was paired, whenever resolve returns a
\* Target for a graph path, the node the Target is bound to is in the active
\* node list right after the call: for a first resolve, for a cache hit and
\* for a resolve that follows an unresolve of the same path
C28_ResolvedNodeIsActive ==
    (contractOK /\ last.op = "resolve" /\ last.ret # Null
     /\ last.path.component = "graph")
        => last.ret.node \in Elems(activeNodes)

\* C29: an unresolve of a path that is paired with a successful resolve of
\* that path decrements the reference count of the node the resolve counted,
\* and no other count, also when several nodes share a name and the path
\* was resolved by exact traversal
C29_UnresolveSameNode ==
    [][ (last'.op = "unresolve" /\ last'.ret = Void
         /\ last'.path.component = "graph" /\ KeyOf(last'.path) \in pending)
            => LET n == targetCache[KeyOf(last'.path)].node
               IN /\ ~RefCount(nodeCounts, n).nan
                  /\ RefCount(nodeCounts', n) = Num(RefCount(nodeCounts, n).n - 1)
                  /\ \A m \in NodeIds \ {n} :
                         RefCount(nodeCounts', m) = RefCount(nodeCounts, m) ]_vars

(***************************************************************************)
(* findNode called on its own and through resolve, while the application   *)
(* attaches nodes and installs masks.                                      *)
(***************************************************************************)
MaxFindSteps == 3

\* the entity paths handed to findNode: the empty path, one segment over the
\* names of the graph and a name of no node (Z), and two segments of which
\* the first is a parent of the graph or Z and the second a child name or Z
FindNames == {"B", "C", "X", "D", "Z"}
FindEntityPaths ==
    {<<>>} \cup {<<a>> : a \in FindNames}
           \cup {<<a, b>> : a \in {"B", "X", "Z"}, b \in {"C", "Z"}}

\* the call findNode(path), counted as one step
FindNodeCall(p) ==
    LET found == FindNode(p)
    IN /\ steps < MaxFindSteps
       /\ steps' = steps + 1
       /\ last' = [op |-> "findNode", path |-> p, ret |-> found.node,
                   fallback |-> found.fallback, lookups |-> found.lookups]
       /\ FallbackDiagnostics(found, p)
       /\ UNCHANGED <<graphVars, mask, morphWeights, binderVars, dirtied,
                      preResolve, pending, contractOK, everAbsent, probe,
                      hostVars>>

NextFind ==
    \/ \E e \in FindEntityPaths : FindNodeCall(PathOf(e, "graph", "localPosition"))
    \/ \E p \in Paths : steps < MaxFindSteps /\ ResolveCall(p)
    \/ \E m \in Masks : steps < MaxFindSteps /\ AssignMask(m)
    \/ \E n \in NodeIds : steps < MaxFindSteps /\ AttachNode(n)

SpecFind == Init /\ [][NextFind]_vars

\* the nodes of graph g that the segments of entityPath lead to from the root
ExactNodes(g, entityPath) == {n \in g : Tail(NodeSegments(n)) = entityPath}

\* C23: findNode on an active path returns the node of the exact traversal of
\* the graph whenever there is one, even when the flat index holds another
\* node under the same last-segment name; when the traversal finds none it
\* returns the flat-index node of the last segment (of the empty string for
\* an empty path), and nothing when the index has no such name either.
C23_ExactTraversalFirst ==
    [][ (last'.op = "findNode" /\ IsPathActive(mask, graphName, last'.path.entityPath))
            => LET e == last'.path.entityPath
                   exact == ExactNodes(present, e)
               IN IF exact # {} THEN last'.ret \in exact
                  ELSE IF LastName(e) \in DOMAIN nodes
                       THEN last'.ret = nodes[LastName(e)]
                       ELSE last'.ret = NoNode ]_vars

\* findNode(['B', 'C']) gave the child C of B while the flat index holds the
\* child C of X under that name
C23_Witness ==
    /\ last.op = "findNode"
    /\ last.path.entityPath = <<"B", "C">>
    /\ IsPathActive(mask, graphName, last.path.entityPath)
    /\ last.ret = 3
    /\ nodes["C"] = 5

\* C24: a path the installed mask rejects gets no node: findNode returns
\* nothing without a lookup in the graph or the flat index and leaves the
\* fallback diagnostics alone; resolve of such a path, when it is not in the
\* cache, returns nothing and leaves the cache, the counts, the active list
\* and the diagnostics (so the warnings) as they were.
C24_MaskedPathTouchesNothing ==
    [][ (/\ last'.op \in {"findNode", "resolve"}
         /\ mask.installed
         /\ ~IsPathActive(mask, graphName, last'.path.entityPath))
            => /\ last'.op = "findNode"
                     => /\ last'.ret = NoNode
                        /\ last'.lookups = 0
                        /\ UNCHANGED debugVars
               /\ (last'.op = "resolve" /\ ~last'.hit)
                     => /\ last'.ret = Null
                        /\ UNCHANGED <<binderVars, debugVars>> ]_vars

\* resolve of an uncached path of X under a mask that names only B, a path
\* that resolves when no mask is installed
C24_Witness ==
    /\ last.op = "resolve"
    /\ ~last.hit
    /\ mask.installed
    /\ last.path.entityPath = <<"Z", "C">>
    /\ ~IsPathActive(mask, graphName, last.path.entityPath)
    /\ last.ret = Null

\* the place of node n in the depth-first pre-order walk of the graph the
\* binder was built on
WalkPlace(n) ==
    LET walk == PreOrder(InitialNodes)
    IN CHOOSE i \in 1..Len(walk) : walk[i] = n

\* C25: the flat name index is what the constructor built: one entry for each
\* name a node had at construction, holding the node of that name the
\* depth-first pre-order walk visited last; no resolve, unresolve, update,
\* assignMask or node attached later adds, removes or changes an entry.
C25_FlatIndexFixedAtConstruction ==
    /\ DOMAIN nodes = {NodeName(n) : n \in InitialNodes}
    /\ \A nm \in DOMAIN nodes :
          /\ nodes[nm] \in InitialNodes
          /\ NodeName(nodes[nm]) = nm
          /\ \A m \in InitialNodes :
                NodeName(m) = nm => WalkPlace(m) <= WalkPlace(nodes[nm])

\* a node named D was attached after construction and a path was resolved
\* under a mask installed later; the index holds no D and, for the name two
\* nodes share, the one visited last
C25_Witness ==
    /\ present # InitialNodes
    /\ \E n \in present \ InitialNodes : NodeName(n) \notin DOMAIN nodes
    /\ mask.installed
    /\ last.op = "resolve"
    /\ last.ret # Null
    /\ \E n \in InitialNodes : NodeName(n) = "C" /\ nodes["C"] # n

MaxTextureSteps == 4

\* this.animComponent.system.app.assets: 1 is a loaded texture, 2 a texture
\* whose resource is not loaded yet, 3 a loaded asset of another type, and 0
\* is the id of no asset
TextureAssetIds == 0..3
TextureAssets ==
    [a \in 1..3 |->
        CASE a = 1 -> [resource |-> [kind |-> "resource", asset |-> a],
                       type |-> "texture"]
          [] a = 2 -> [resource |-> Null, type |-> "texture"]
          [] a = 3 -> [resource |-> [kind |-> "resource", asset |-> a],
                       type |-> "material"]]

\* assets.get(id)
AssetsGet(a) == IF a \in DOMAIN TextureAssets THEN TextureAssets[a] ELSE Null

\* the slot names of a material that hold a texture
TextureSlots == {"diffuseMap", "emissiveMap"}

\* resolve, line 208, calls handler(node): the parameter textureName of the
\* handler is undefined, and material[undefined] is the property "undefined"
ResolveTextureName == "undefined"

TexturePaths ==
    { PathOf(<<"B">>, "graph", "materialTexture"),
      PathOf(<<"B", "C">>, "graph", "materialTexture"),
      PathOf(<<"X">>, "graph", "materialTexture") }

\* textureAsset && textureAsset.resource && textureAsset.type === 'texture'
IsLoadedTexture(asset) ==
    asset # Null /\ asset.resource # Null /\ asset.type = "texture"

\* lines 116-122: the func of the target cached under key, called with [a]
InvokeMaterialTexture(key, a) ==
    /\ steps < MaxTextureSteps
    /\ key \in DOMAIN targetCache
    /\ targetCache[key].property = "materialTexture"
    /\ steps' = steps + 1
    /\ LET target == targetCache[key]
           mi == target.morphs[1]
           asset == AssetsGet(a)
       IN IF ~animComponent
          THEN \* this.animComponent.system of undefined
               /\ last' = [op |-> "invoke", key |-> key, value |-> a,
                           meshInstance |-> mi, ret |-> TypeError]
               /\ UNCHANGED materials
          ELSE /\ last' = [op |-> "invoke", key |-> key, value |-> a,
                           meshInstance |-> mi, ret |-> Void]
               /\ materials' =
                     IF IsLoadedTexture(asset)
                     THEN [materials EXCEPT
                              ![mi].slots = Put(@, ResolveTextureName, asset.resource),
                              ![mi].updates = @ + 1]
                     ELSE materials
    /\ UNCHANGED <<graphVars, mask, morphWeights, binderVars, debugVars, dirtied,
                   preResolve, pending, contractOK, everAbsent, probe, logVars,
                   lightVars, animComponent>>

\* the binder as constructed here has no animComponent; a binder built by a
\* subclass that assigns one before any call has it
InitTexture ==
    /\ graphName = "A"
    /\ present = InitialNodes
    /\ meshInstances = MeshesOf(<<MeshOf("B", FALSE, 0), MeshOf("C", FALSE, 0)>>)
    /\ mask = NoMask
    /\ InitBinder
    /\ debugBuild = TRUE
    /\ InitLog
    /\ InitLight
    /\ InitRegistry
    /\ animComponent \in BOOLEAN
    /\ materials = NewMaterials(meshInstances)

NextTexture ==
    \/ \E p \in TexturePaths : steps < MaxTextureSteps /\ ResolveCall(p)
    \/ \E p \in TexturePaths, a \in TextureAssetIds :
          InvokeMaterialTexture(KeyOf(p), a)

SpecTexture == InitTexture /\ [][NextTexture]_vars

\* C27: a material-texture target obtained through resolve and invoked with
\* an asset id raises no error; when the asset exists, has a resource and is
\* of type texture, a texture slot of the matching mesh instance's material
\* holds the resource afterwards and the material was updated once; for an
\* unknown, unloaded or other asset nothing changes.
C27_TextureTargetAssignsSlot ==
    [][ last'.op = "invoke"
          => LET asset == AssetsGet(last'.value)
                 mi == last'.meshInstance
             IN /\ last'.ret = Void
                /\ IF IsLoadedTexture(asset)
                   THEN /\ \E slot \in TextureSlots :
                              /\ slot \in DOMAIN materials'[mi].slots
                              /\ materials'[mi].slots[slot] = asset.resource
                        /\ materials'[mi].updates = materials[mi].updates + 1
                        /\ \A m \in DOMAIN materials \ {mi} :
                              materials'[m] = materials[m]
                   ELSE UNCHANGED materials ]_vars

(***************************************************************************)
(* The light component and its layers: component and entity are switched   *)
(* on and off, new arrays are assigned to layers, the scene gains and      *)
(* loses layers, and the properties are refreshed.                         *)
(***************************************************************************)
MaxLayerSteps == 5
MaxLayerArray == 2

\* the arrays assigned to layers
LayerArrays == UNION {[1..n -> LayerIds] : n \in 0..MaxLayerArray}

\* this.enabled && this.entity.enabled
BothEnabled(f) == f.component /\ f.entity

LayerStep(A) ==
    A /\ UNCHANGED <<graphVars, mask, morphWeights, binderVars, debugVars,
                     dirtied, last, preResolve, pending, contractOK, everAbsent,
                     probe, logVars, sceneVars, maskSeen>>

\* component.enabled = value: the setter stores the value and hands it to
\* onSetEnabled, which calls onEnable or onDisable when the entity is enabled
SetEnabled(v) ==
    /\ steps < MaxLayerSteps
    /\ steps' = steps + 1
    /\ IF flags.component = v
       THEN /\ lightCall' = [op |-> "set", name |-> "enabled", ran |-> "none"]
            /\ UNCHANGED <<flags, lightData, lightObj, cookieVars, lightLayers,
                           layerSubs>>
       ELSE /\ flags' = [flags EXCEPT !.component = v]
            /\ IF flags.entity
               THEN IF v
                    THEN /\ lightCall' = [op |-> "set", name |-> "enabled",
                                          ran |-> "onEnable"]
                         /\ EnableBody([flags EXCEPT !.component = v])
                    ELSE /\ lightCall' = [op |-> "set", name |-> "enabled",
                                          ran |-> "onDisable"]
                         /\ DisableBody
               ELSE /\ lightCall' = [op |-> "set", name |-> "enabled",
                                     ran |-> "none"]
                    /\ UNCHANGED <<lightData, lightObj, cookieVars, lightLayers,
                                   layerSubs>>
    /\ UNCHANGED <<layers, sceneLayers>>

\* entity.enabled = value: the entity tells each of its enabled components
SetEntityEnabled(v) ==
    /\ steps < MaxLayerSteps
    /\ steps' = steps + 1
    /\ IF flags.entity = v
       THEN /\ lightCall' = [op |-> "entity", ran |-> "none"]
            /\ UNCHANGED <<flags, lightData, lightObj, cookieVars, lightLayers,
                           layerSubs>>
       ELSE /\ flags' = [flags EXCEPT !.entity = v]
            /\ IF flags.component
               THEN IF v
                    THEN /\ lightCall' = [op |-> "entity", ran |-> "onEnable"]
                         /\ EnableBody([flags EXCEPT !.entity = v])
                    ELSE /\ lightCall' = [op |-> "entity", ran |-> "onDisable"]
                         /\ DisableBody
               ELSE /\ lightCall' = [op |-> "entity", ran |-> "none"]
                    /\ UNCHANGED <<lightData, lightObj, cookieVars, lightLayers,
                                   layerSubs>>
    /\ UNCHANGED <<layers, sceneLayers>>

\* component.layers = a new array: never the array held, so the setter goes on
SetLayers(ls) ==
    /\ steps < MaxLayerSteps
    /\ steps' = steps + 1
    /\ lightCall' = [op |-> "set", name |-> "layers", ran |-> "none"]
    /\ layers' = ls
    /\ lightLayers' = LayersSetFunc(lightLayers, layers, ls, sceneLayers,
                                    BothEnabled(flags))
    /\ UNCHANGED <<flags, sceneLayers, layerSubs, lightData, lightObj, cookieVars>>

\* scene.layers gains layer l and fires 'add'
LayerAdded(l) ==
    /\ steps < MaxLayerSteps
    /\ l \notin sceneLayers
    /\ steps' = steps + 1
    /\ lightCall' = [op |-> "add", layer |-> l, ran |-> "none"]
    /\ sceneLayers' = sceneLayers \cup {l}
    /\ lightLayers' = IF layerSubs
                      THEN OnLayerAdded(lightLayers, layers, l, BothEnabled(flags))
                      ELSE lightLayers
    /\ UNCHANGED <<flags, layers, layerSubs, lightData, lightObj, cookieVars>>

\* scene.layers loses layer l and fires 'remove'
LayerRemoved(l) ==
    /\ steps < MaxLayerSteps
    /\ l \in sceneLayers
    /\ steps' = steps + 1
    /\ lightCall' = [op |-> "remove", layer |-> l, ran |-> "none"]
    /\ sceneLayers' = sceneLayers \ {l}
    /\ lightLayers' = IF layerSubs
                      THEN OnLayerRemoved(lightLayers, layers, l)
                      ELSE lightLayers
    /\ UNCHANGED <<flags, layers, layerSubs, lightData, lightObj, cookieVars>>

\* refreshProperties(): every property is assigned its own value, which the
\* setters of enabled and layers take for no change, then onEnable() runs
\* when component and entity are enabled
RefreshProperties ==
    /\ steps < MaxLayerSteps
    /\ steps' = steps + 1
    /\ IF BothEnabled(flags)
       THEN /\ lightCall' = [op |-> "refreshProperties", ran |-> "onEnable"]
            /\ EnableBody(flags)
       ELSE /\ lightCall' = [op |-> "refreshProperties", ran |-> "none"]
            /\ UNCHANGED <<lightData, lightObj, cookieVars, lightLayers, layerSubs>>
    /\ UNCHANGED <<flags, layers, sceneLayers>>

NextLayers ==
    \/ \E v \in BOOLEAN : LayerStep(SetEnabled(v))
    \/ \E v \in BOOLEAN : LayerStep(SetEntityEnabled(v))
    \/ \E ls \in LayerArrays : LayerStep(SetLayers(ls))
    \/ \E l \in LayerIds : LayerStep(LayerAdded(l))
    \/ \E l \in LayerIds : LayerStep(LayerRemoved(l))
    \/ LayerStep(RefreshProperties)

SpecLayers == Init /\ [][NextLayers]_vars

MaxMaskSteps == 4

\* mask |= bit and mask &= ~bit
SetBit(m, bit) == m \cup {bit}
ClearBit(m, bit) == m \ {bit}

\* the setFunc of affectDynamic
AffectDynamicSetFunc(m, newValue) ==
    IF newValue THEN SetBit(m, "DYNAMIC") ELSE ClearBit(m, "DYNAMIC")

\* the setFunc of affectLightmapped; bake is this.bake
AffectLightmappedSetFunc(m, newValue, bake) ==
    IF newValue
    THEN LET m1 == SetBit(m, "BAKED")
         IN IF bake THEN ClearBit(m1, "LIGHTMAP") ELSE m1
    ELSE LET m1 == ClearBit(m, "BAKED")
         IN IF bake THEN SetBit(m1, "LIGHTMAP") ELSE m1

\* the setFunc of bake; affectLightmapped is this.affectLightmapped
BakeSetFunc(m, newValue, affectLightmapped) ==
    IF newValue
    THEN LET m1 == SetBit(m, "LIGHTMAP")
         IN IF affectLightmapped THEN ClearBit(m1, "BAKED") ELSE m1
    ELSE LET m1 == ClearBit(m, "LIGHTMAP")
         IN IF affectLightmapped THEN SetBit(m1, "BAKED") ELSE m1

\* the MASK_BAKED and MASK_LIGHTMAP bits of a mask
BakeBits(m) == m \cap {"BAKED", "LIGHTMAP"}

\* the masks seen so far with each pair of values, this state's included
SeenAfter(seen, data, m) ==
    LET k == <<data.affectLightmapped, data.bake>>
    IN [x \in DOMAIN seen \cup {k} |->
           (IF x \in DOMAIN seen THEN seen[x] ELSE {})
              \cup (IF x = k THEN {BakeBits(m)} ELSE {})]

\* the setter installed by _defineProperty for one of the three flags:
\* nothing happens when the value is the one held
SetMaskFlag(name, value, newMask, dirty) ==
    /\ steps < MaxMaskSteps
    /\ steps' = steps + 1
    /\ IF lightData[name] = value
       THEN /\ lightCall' = [op |-> "set", name |-> name, value |-> value,
                             layersDirty |-> FALSE]
            /\ UNCHANGED <<lightData, lightObj>>
       ELSE /\ lightCall' = [op |-> "set", name |-> name, value |-> value,
                             layersDirty |-> dirty]
            /\ lightData' = [lightData EXCEPT ![name] = value]
            /\ lightObj' = [lightObj EXCEPT !.mask = newMask]
    /\ maskSeen' = SeenAfter(maskSeen, lightData', lightObj'.mask)
    /\ UNCHANGED <<cookieVars, layerVars>>

SetAffectDynamic(v) ==
    SetMaskFlag("affectDynamic", v, AffectDynamicSetFunc(lightObj.mask, v), TRUE)

SetAffectLightmapped(v) ==
    SetMaskFlag("affectLightmapped", v,
                AffectLightmappedSetFunc(lightObj.mask, v, lightData.bake), FALSE)

SetBake(v) ==
    SetMaskFlag("bake", v,
                BakeSetFunc(lightObj.mask, v, lightData.affectLightmapped), TRUE)

MaskStep(A) ==
    A /\ UNCHANGED <<graphVars, mask, morphWeights, binderVars, debugVars,
                     dirtied, last, preResolve, pending, contractOK, everAbsent,
                     probe, logVars, sceneVars>>

NextLightMask ==
    \/ \E v \in BOOLEAN : MaskStep(SetAffectDynamic(v))
    \/ \E v \in BOOLEAN : MaskStep(SetAffectLightmapped(v))
    \/ \E v \in BOOLEAN : MaskStep(SetBake(v))

SpecLightMask == Init /\ [][NextLightMask]_vars

\* C31: the MASK_BAKED and MASK_LIGHTMAP bits of the light are a function of
\* the values of affectLightmapped and bake: whatever the assignments that
\* led to a pair of values, the light has the same two bits with it.
C31_MaskBitsFunctionOfFlags ==
    \A k \in DOMAIN maskSeen : Cardinality(maskSeen[k]) = 1

\* C32: when cookieAsset is reassigned from one asset to another asset or to
\* null, the component holds no 'add', 'load' or 'remove' subscription of the
\* previous asset afterwards and the cookie no longer is the resource of the
\* previous asset (it is null, or already the resource of the new asset);
\* later 'add' and 'load' events of an asset that is not the assigned one
\* leave the cookie alone.  This is meant for every asset id, 0 included.
C32_ReassignmentDropsPreviousAsset ==
    [][ /\ (/\ lightCall'.op = "set"
            /\ lightCall'.name = "cookieAsset"
            /\ AssignedAsset # NoId
            /\ (lightCall'.value = Null \/ lightCall'.value.id # AssignedAsset))
           => /\ \A e \in {"add", "load", "remove"} :
                    <<e, AssignedAsset>> \notin subs'
              /\ \/ lightData'.cookie = Null
                 \/ /\ lightCall'.value # Null
                    /\ lightData'.cookie = Resource(lightCall'.value.id)
        /\ (/\ lightCall'.op \in {"add", "load"}
            /\ lightCall'.asset # AssignedAsset)
           => lightData'.cookie = lightData.cookie ]_vars

====
